---- MODULE Spec2Model ----
(***************************************************************************)
(* Transactional configuration deployment (deployment_utils.py,            *)
(* error_handler.py) and the CrowdSec/Traefik ban test harness             *)
(* (crowdsec_client.py, crowdsec_tester.py) of wp-hubstack.                *)
(***************************************************************************)
EXTENDS Integers, Sequences, FiniteSets, TLC

\* ------------------------------------------------------------------------
\* Bounds
\* ------------------------------------------------------------------------
MaxLen == 2
MaxClock == 1

\* ------------------------------------------------------------------------
\* Files, paths and the clock
\* ------------------------------------------------------------------------
Bytes == {0, 1}
Contents == UNION {[1..n -> Bytes] : n \in 0..MaxLen}

Absent == [exists |-> FALSE, data |-> <<>>]
FileOf(d) == [exists |-> TRUE, data |-> d]
FileStates == {Absent} \cup {FileOf(d) : d \in Contents}

\* a path is a file name plus the ".backup_<timestamp>" suffix it carries
\* (stamp = -1: no suffix)
NoPath == [name |-> "", stamp |-> -1]
CurrentConfig == [name |-> "docker-compose.yml", stamp |-> -1]
PendingConfig == [name |-> "docker-compose-pending.yml", stamp |-> -1]
BackupPathFor(config_path, t) == [name |-> config_path.name, stamp |-> t]
AllPaths == {CurrentConfig, PendingConfig} \cup {BackupPathFor(CurrentConfig, t) : t \in 0..MaxClock}
BackupPaths == AllPaths \ {CurrentConfig, PendingConfig}

PathExists(fs, p) == p \in DOMAIN fs /\ fs[p].exists

\* shutil.copy2(src, dst): the outcome says whether the call returned and how
\* many bytes reached dst (-1: dst was never opened).  A failing copy may
\* leave dst truncated, partially written, or fully written (metadata copy
\* failed afterwards).
CopyOutcomes(fs, src) ==
    IF PathExists(fs, src)
    THEN {[ok |-> TRUE, written |-> Len(fs[src].data)]}
         \cup {[ok |-> FALSE, written |-> k] : k \in (-1)..Len(fs[src].data)}
    ELSE {[ok |-> FALSE, written |-> -1]}

Copy2(fs, src, dst, oc) ==
    IF oc.written = -1 THEN fs
    ELSE [fs EXCEPT ![dst] = FileOf(SubSeq(fs[src].data, 1, oc.written))]

\* ------------------------------------------------------------------------
\* State
\* ------------------------------------------------------------------------
VARIABLES
    files,              \* the file system: path -> file
    now,                \* wall clock, in seconds
    args,               \* arguments of the deploy_new_config call
    credsOnDisk,        \* whether the credentials file exists
    pc,                 \* position inside deploy_new_config
    backup_file_path,   \* local of deploy_new_config
    tm,                 \* the TransactionManager instance
    result,             \* "none" | "true" | "false" | "raised"
    log,                \* tags of the log records written
    files0,             \* the file system when deploy_new_config was called
    copyFailed,         \* the copy of line 278 raised
    rollbackCalls,      \* number of TransactionManager.rollback() calls
    sinkRaised,         \* log_error_to_google_sheets let an exception escape
    store,              \* the external ban store: the IPs with an active decision
    t_pc,               \* position inside run_crowdsec_integration_tests
    t_args,             \* arguments of the run_crowdsec_integration_tests call
    trace,              \* the external actions issued so far, in order
    test_step_results,  \* local of run_crowdsec_integration_tests
    t_result,           \* "none" | "true" | "false" | "raised"
    probes,             \* the statuses the probes returned, in order
    probeHeaders,       \* the request headers of the probes, in order
    probeOutcomes,      \* what requests.get did for each probe, in order
    banInitiated,       \* "none" | "true" | "false": what _ban_test_ip returned
    interrupted,        \* a KeyboardInterrupt arrived in the try block
    unexpected,         \* an unexpected exception was raised in the try block
    failAt,             \* Len(trace) when the run was cut short
    unbanLog,           \* the cs_unban_ip calls made directly, in order
    tmCall,             \* the last direct call of a TransactionManager method
    tmCount,            \* number of direct TransactionManager calls so far
    backupLog,          \* the backup_config_file calls of --backup-conf, in order
    m_pc,               \* main(): where the command-line run stands
    m_args,             \* main(): the requested action and --skip-tests
    exit_code,          \* the process's exit status, -1 while it runs
    d_pc,               \* diffing: which deep_diff_yaml calls were made
    current_doc,        \* deep_diff_yaml: the current document
    pending_doc,        \* deep_diff_yaml: the pending document
    diff_summary,       \* deep_diff_yaml(current_doc, pending_doc)
    diff_reversed,      \* deep_diff_yaml(pending_doc, current_doc)
    tar_pc,             \* inject_tarballs_with_restart: position
    tar_args,           \* its dry_run and cleanup_backup arguments
    tarballs,           \* the tarballs of tarballs_dir: the member names of each
    tar_idx,            \* extract_tarballs: number of tarballs extracted so far
    target_dir,         \* the files under the target directory
    target_dir0,        \* the files under the target directory before the call
    backup_files,       \* the files under the backup directory
    injection_manager,  \* the TarballInjectionManager's fields
    tar_result,         \* what inject_tarballs_with_restart returned
    tar_rollback        \* what the handler's rollback() returned

deployVars == <<files, now, args, pc, backup_file_path, tm, result,
                log, files0, copyFailed, rollbackCalls, sinkRaised>>
testVars == <<t_pc, t_args, trace, test_step_results, t_result, probes, probeHeaders, probeOutcomes,
              banInitiated, interrupted, unexpected, failAt>>
clientVars == <<unbanLog>>
tmVars == <<tmCall, tmCount>>
backupVars == <<backupLog>>
mainVars == <<m_pc, m_args, exit_code>>
diffVars == <<d_pc, current_doc, pending_doc, diff_summary, diff_reversed>>
tarVars == <<tar_pc, tar_args, tarballs, tar_idx, target_dir, target_dir0, backup_files,
             injection_manager, tar_result, tar_rollback>>

notDeployVars == <<store, testVars, clientVars, tmVars, backupVars, mainVars, diffVars,
    tarVars>>
notTestVars == <<deployVars, clientVars, tmVars, backupVars, mainVars, diffVars,
    tarVars>>
notClientVars == <<deployVars, credsOnDisk, testVars, tmVars, backupVars, mainVars, diffVars,
    tarVars>>
outsideTMVars == <<store, testVars, clientVars, backupVars, mainVars, diffVars,
    tarVars>>
outsideBackupVars == <<store, testVars, clientVars, tmVars, mainVars, diffVars,
    tarVars>>
notMainVars == <<deployVars, credsOnDisk, store, clientVars, tmVars, backupVars, diffVars,
    tarVars>>
notDiffVars == <<deployVars, credsOnDisk, store, testVars, clientVars, tmVars, backupVars, mainVars,
    tarVars>>
notTarVars == <<deployVars, credsOnDisk, store, testVars, clientVars, tmVars, backupVars, mainVars,
    diffVars>>

vars == <<deployVars, credsOnDisk, store, testVars, clientVars, tmVars, backupVars, mainVars,
          diffVars, tarVars>>

\* ------------------------------------------------------------------------
\* error_handler.py
\* ------------------------------------------------------------------------
SinkConfigured(a) == a.spreadsheet_id # "" /\ a.credentials_file # ""

\* log_error_to_google_sheets: "returned" or "raised".  sinkFails: the
\* gspread/oauth calls inside the try block raise.  The first except clause
\* names HttpError, which error_handler.py never imports, so evaluating it
\* raises NameError and the handler below it is never reached.
log_error_to_google_sheets(spreadsheet_id, credentials_file, dry_run, credsExist, sinkFails) ==
    IF spreadsheet_id = "" \/ credentials_file = "" THEN "returned"
    ELSE IF dry_run THEN "returned"
    ELSE IF ~credsExist THEN "returned"
    ELSE IF sinkFails THEN "raised"
    ELSE "returned"

\* TransactionManager.__init__
TransactionManager(original_config_path, backup_path, fs) ==
    [original_config_path |-> original_config_path,
     backup_path |-> backup_path,
     deployment_started |-> FALSE,
     rollback_performed |-> FALSE,
     backup_exists_at_start |-> IF backup_path # NoPath THEN PathExists(fs, backup_path) ELSE FALSE]

NoTM == TransactionManager(NoPath, NoPath, [p \in AllPaths |-> Absent])

\* start_deployment that accepts a backup path whose file does not exist
start_deployment_NoExistsCheck(t, fs) ==
    IF t.backup_path = NoPath
    THEN [raised |-> TRUE, tm |-> t]
    ELSE [raised |-> FALSE, tm |-> [t EXCEPT !.deployment_started = TRUE]]

\* TransactionManager.start_deployment
start_deployment(t, fs) ==
    IF t.backup_path = NoPath \/ ~PathExists(fs, t.backup_path)
    THEN [raised |-> TRUE, tm |-> t]
    ELSE [raised |-> FALSE, tm |-> [t EXCEPT !.deployment_started = TRUE]]

\* rollback that reports success although its copy failed
rollback_TrueOnFailure(t, fs, oc) ==
    LET warn == IF ~t.deployment_started THEN {"rollback_not_started"} ELSE {} IN
    IF t.backup_path = NoPath \/ ~PathExists(fs, t.backup_path)
    THEN [ret |-> FALSE, tm |-> t, fs |-> fs, log |-> warn \cup {"rollback_no_backup"}]
    ELSE [ret |-> TRUE, tm |-> [t EXCEPT !.rollback_performed = TRUE],
          fs |-> Copy2(fs, t.backup_path, t.original_config_path, oc),
          log |-> warn \cup {"rollback_ok"}]

\* TransactionManager.rollback; oc is the outcome of its shutil.copy2
rollback(t, fs, oc) ==
    LET warn == IF ~t.deployment_started THEN {"rollback_not_started"} ELSE {} IN
    IF t.backup_path = NoPath \/ ~PathExists(fs, t.backup_path)
    THEN [ret |-> FALSE, tm |-> t, fs |-> fs, log |-> warn \cup {"rollback_no_backup"}]
    ELSE IF oc.ok
    THEN [ret |-> TRUE, tm |-> [t EXCEPT !.rollback_performed = TRUE],
          fs |-> Copy2(fs, t.backup_path, t.original_config_path, oc),
          log |-> warn \cup {"rollback_ok"}]
    ELSE [ret |-> FALSE, tm |-> t,
          fs |-> Copy2(fs, t.backup_path, t.original_config_path, oc),
          log |-> warn \cup {"rollback_failed"}]

\* TransactionManager.cleanup: logging only
cleanup(t, fs) ==
    IF t.deployment_started /\ ~t.rollback_performed
    THEN {"deploy_ok"} \cup (IF t.backup_path # NoPath /\ PathExists(fs, t.backup_path)
                             THEN {"backup_retained"} ELSE {})
    ELSE IF t.rollback_performed THEN {"rolled_back"}
    ELSE {"cleanup_not_started"}

\* ------------------------------------------------------------------------
\* deployment_utils.py
\* ------------------------------------------------------------------------
\* backup_config_file: the returned path (NoPath for "") and the file system
backup_config_file(fs, config_path, t, dry_run, oc) ==
    IF ~PathExists(fs, config_path) THEN [ret |-> NoPath, fs |-> fs]
    ELSE IF dry_run THEN [ret |-> BackupPathFor(config_path, t), fs |-> fs]
    ELSE IF oc.ok
    THEN [ret |-> BackupPathFor(config_path, t),
          fs |-> Copy2(fs, config_path, BackupPathFor(config_path, t), oc)]
    ELSE [ret |-> NoPath, fs |-> Copy2(fs, config_path, BackupPathFor(config_path, t), oc)]

DeployArgs ==
    [skip_backup : BOOLEAN, dry_run : BOOLEAN,
     spreadsheet_id : {"", "sheet-id"}, credentials_file : {"", "creds.json"}]

DeployInit ==
    /\ \E cur \in FileStates, pend \in FileStates :
          files = [p \in AllPaths |-> IF p = CurrentConfig THEN cur
                                      ELSE IF p = PendingConfig THEN pend
                                      ELSE Absent]
    /\ now \in 0..MaxClock
    /\ args \in DeployArgs
    /\ credsOnDisk \in BOOLEAN
    /\ pc = "validate"
    /\ backup_file_path = NoPath
    /\ tm = NoTM
    /\ result = "none"
    /\ log = {}
    /\ files0 = files
    /\ copyFailed = FALSE
    /\ rollbackCalls = 0
    /\ sinkRaised = FALSE

\* deploy_new_config, lines 216-224: the new configuration must exist
DeployValidate ==
    /\ pc = "validate"
    /\ IF ~PathExists(files, PendingConfig)
       THEN \E sinkFails \in BOOLEAN :
              LET r == IF SinkConfigured(args)
                       THEN log_error_to_google_sheets(args.spreadsheet_id, args.credentials_file,
                                                       args.dry_run, credsOnDisk, sinkFails)
                       ELSE "returned" IN
              /\ result' = IF r = "raised" THEN "raised" ELSE "false"
              /\ sinkRaised' = (r = "raised")
              /\ log' = log \cup {"new_config_missing"}
              /\ pc' = "done"
       ELSE /\ pc' = "dryrun"
            /\ UNCHANGED <<result, sinkRaised, log>>
    /\ UNCHANGED <<files, now, args, credsOnDisk, backup_file_path, tm, files0,
                   copyFailed, rollbackCalls>>
    /\ UNCHANGED notDeployVars

\* DeployDryRun with the backup taken before the dry-run return
DeployDryRun_BackupAnyway ==
    /\ pc = "dryrun"
    /\ IF args.dry_run
       THEN \E oc \in CopyOutcomes(files, CurrentConfig) :
              /\ files' = backup_config_file(files, CurrentConfig, now, FALSE, oc).fs
              /\ result' = "true"
              /\ pc' = "done"
              /\ log' = log \cup {"dry_run"}
       ELSE /\ pc' = "backup"
            /\ UNCHANGED <<files, result, log>>
    /\ UNCHANGED <<now, args, credsOnDisk, backup_file_path, tm, files0,
                   copyFailed, rollbackCalls, sinkRaised>>
    /\ UNCHANGED notDeployVars

\* deploy_new_config, lines 229-237: the dry run reports and returns
DeployDryRun ==
    /\ pc = "dryrun"
    /\ IF args.dry_run
       THEN /\ result' = "true"
            /\ pc' = "done"
            /\ log' = log \cup {"dry_run"}
       ELSE /\ pc' = "backup"
            /\ UNCHANGED <<result, log>>
    /\ UNCHANGED <<files, now, args, credsOnDisk, backup_file_path, tm, files0,
                   copyFailed, rollbackCalls, sinkRaised>>
    /\ UNCHANGED notDeployVars

\* DeployBackup that takes the backup even under --skip-backup
DeployBackup_IgnoreSkip ==
    /\ pc = "backup"
    /\ IF PathExists(files, CurrentConfig)
       THEN \E oc \in CopyOutcomes(files, CurrentConfig) :
              LET b == backup_config_file(files, CurrentConfig, now, FALSE, oc) IN
              /\ files' = b.fs
              /\ backup_file_path' = b.ret
              /\ IF b.ret = NoPath
                 THEN /\ result' = "false"
                      /\ log' = log \cup {"backup_failed"}
                      /\ pc' = "done"
                 ELSE /\ pc' = "start"
                      /\ log' = log \cup {"backup_created"}
                      /\ UNCHANGED result
       ELSE /\ pc' = "start"
            /\ log' = log \cup {"no_current_config"}
            /\ UNCHANGED <<files, backup_file_path, result>>
    /\ UNCHANGED <<now, args, credsOnDisk, tm, files0, copyFailed, rollbackCalls, sinkRaised>>
    /\ UNCHANGED notDeployVars

\* deploy_new_config, lines 240-257: back up the current configuration
DeployBackup ==
    /\ pc = "backup"
    /\ IF ~args.skip_backup
       THEN IF PathExists(files, CurrentConfig)
            THEN \E oc \in CopyOutcomes(files, CurrentConfig), sinkFails \in BOOLEAN :
                   LET b == backup_config_file(files, CurrentConfig, now, FALSE, oc)
                       r == IF SinkConfigured(args)
                            THEN log_error_to_google_sheets(args.spreadsheet_id, args.credentials_file,
                                                            args.dry_run, credsOnDisk, sinkFails)
                            ELSE "returned" IN
                   /\ files' = b.fs
                   /\ backup_file_path' = b.ret
                   /\ IF b.ret = NoPath
                      THEN /\ result' = IF r = "raised" THEN "raised" ELSE "false"
                           /\ sinkRaised' = (r = "raised")
                           /\ log' = log \cup {"backup_failed"}
                           /\ pc' = "done"
                      ELSE /\ pc' = "start"
                           /\ log' = log \cup {"backup_created"}
                           /\ UNCHANGED <<result, sinkRaised>>
            ELSE /\ pc' = "start"
                 /\ log' = log \cup {"no_current_config"}
                 /\ UNCHANGED <<files, backup_file_path, result, sinkRaised>>
       ELSE /\ pc' = "start"
            /\ log' = log \cup {"warn_backup_skipped"}
            /\ UNCHANGED <<files, backup_file_path, result, sinkRaised>>
    /\ UNCHANGED <<now, args, credsOnDisk, tm, files0, copyFailed, rollbackCalls>>
    /\ UNCHANGED notDeployVars

\* deploy_new_config, lines 262-274: create the manager, start the transaction
DeployStart ==
    /\ pc = "start"
    /\ LET t == TransactionManager(CurrentConfig, backup_file_path, files) IN
       IF backup_file_path # NoPath
       THEN LET s == start_deployment(t, files) IN
            /\ tm' = s.tm
            /\ pc' = IF s.raised THEN "handle" ELSE "copy"
            /\ log' = log \cup (IF s.raised THEN {"start_failed"} ELSE {"tx_started"})
       ELSE /\ tm' = t
            /\ pc' = "copy"
            /\ log' = log \cup {"no_formal_backup"}
    /\ UNCHANGED <<files, now, args, credsOnDisk, backup_file_path, result, files0,
                   copyFailed, rollbackCalls, sinkRaised>>
    /\ UNCHANGED notDeployVars

\* deploy_new_config, lines 277-283: copy the new configuration over the
\* current one; on success clean up and return True
DeployCopy ==
    /\ pc = "copy"
    /\ \E oc \in CopyOutcomes(files, PendingConfig) :
         /\ files' = Copy2(files, PendingConfig, CurrentConfig, oc)
         /\ IF oc.ok
            THEN /\ result' = "true"
                 /\ pc' = "done"
                 /\ log' = log \cup {"deployed"}
                            \cup (IF backup_file_path # NoPath THEN cleanup(tm, files') ELSE {})
                 /\ UNCHANGED copyFailed
            ELSE /\ copyFailed' = TRUE
                 /\ pc' = "handle"
                 /\ UNCHANGED <<result, log>>
    /\ UNCHANGED <<now, args, credsOnDisk, backup_file_path, tm, files0,
                   rollbackCalls, sinkRaised>>
    /\ UNCHANGED notDeployVars

\* deploy_new_config, lines 285-296, calling handle_deployment_error
\* (error_handler.py 147-197) with dry_run=False: report to the sink, then
\* roll back if the transaction was started; return False
handle_deployment_error ==
    /\ pc = "handle"
    /\ \E sinkFails \in BOOLEAN, oc \in CopyOutcomes(files, tm.backup_path) :
         LET r == IF SinkConfigured(args)
                  THEN log_error_to_google_sheets(args.spreadsheet_id, args.credentials_file,
                                                  FALSE, credsOnDisk, sinkFails)
                  ELSE "returned"
             rb == rollback(tm, files, oc) IN
         IF r = "raised"
         THEN /\ result' = "raised"
              /\ sinkRaised' = TRUE
              /\ UNCHANGED <<files, tm, log, rollbackCalls>>
         ELSE IF tm.deployment_started
         THEN /\ result' = "false"
              /\ files' = rb.fs
              /\ tm' = rb.tm
              /\ rollbackCalls' = rollbackCalls + 1
              /\ log' = log \cup rb.log
                            \cup (IF rb.ret THEN {} ELSE {"critical_manual_intervention"})
              /\ UNCHANGED sinkRaised
         ELSE /\ result' = "false"
              /\ log' = log \cup {"rollback_skipped"}
              /\ UNCHANGED <<files, tm, rollbackCalls, sinkRaised>>
    /\ pc' = "done"
    /\ UNCHANGED <<now, args, credsOnDisk, backup_file_path, files0, copyFailed>>
    /\ UNCHANGED notDeployVars

DeployNext ==
    \/ DeployValidate
    \/ DeployDryRun
    \/ DeployBackup
    \/ DeployStart
    \/ DeployCopy
    \/ handle_deployment_error

DeployIdle ==
    /\ files = [p \in AllPaths |-> Absent]
    /\ now = 0
    /\ args = [skip_backup |-> FALSE, dry_run |-> FALSE,
               spreadsheet_id |-> "", credentials_file |-> ""]
    /\ pc = "idle"
    /\ backup_file_path = NoPath
    /\ tm = NoTM
    /\ result = "none"
    /\ log = {}
    /\ files0 = files
    /\ copyFailed = FALSE
    /\ rollbackCalls = 0
    /\ sinkRaised = FALSE

\* ------------------------------------------------------------------------
\* config.py
\* ------------------------------------------------------------------------
TEST_IP_TO_BAN == "1.2.3.4"
EXPECTED_STATUS_ALLOWED == 200
EXPECTED_STATUS_BLOCKED == 403

\* ------------------------------------------------------------------------
\* Text: a stream of the control surface is a sequence of words; "NL" is a
\* line break
\* ------------------------------------------------------------------------
IsWhite(w) == w \in {"NL", "SP"}

RECURSIVE LStrip(_)
LStrip(s) == IF s # <<>> /\ IsWhite(Head(s)) THEN LStrip(Tail(s)) ELSE s

RECURSIVE RStrip(_)
RStrip(s) == IF s # <<>> /\ IsWhite(s[Len(s)]) THEN RStrip(SubSeq(s, 1, Len(s) - 1)) ELSE s

\* str.strip()
Strip(s) == RStrip(LStrip(s))

LowerWord(w) ==
    CASE w = "No" -> "no"
      [] w = "Active" -> "active"
      [] w = "Decision" -> "decision"
      [] w = "Decision(s)" -> "decision(s)"
      [] w = "Deleted" -> "deleted"
      [] OTHER -> w

\* str.lower()
Lower(s) == [i \in DOMAIN s |-> LowerWord(s[i])]

\* needle in hay
Contains(needle, hay) ==
    \E i \in 1..(Len(hay) - Len(needle) + 1) : SubSeq(hay, i, i + Len(needle) - 1) = needle

DecisionsDeleted == <<"decision(s)", "deleted">>
NoActiveDecision == <<"no", "active", "decision">>

\* ------------------------------------------------------------------------
\* docker_utils.py, crowdsec_client.py
\* ------------------------------------------------------------------------
\* what subprocess.run does for a "docker exec <lapi> cscli ..." call
Completed(rc, out, err) == [kind |-> "completed", returncode |-> rc, stdout |-> out, stderr |-> err]
TimedOut == [kind |-> "timeout", returncode |-> 1, stdout |-> <<>>, stderr |-> <<>>]

\* run_docker_command (run_cscli_command passes its result through)
run_docker_command(resp) ==
    IF resp.kind = "completed"
    THEN [success |-> resp.returncode = 0, stdout |-> Strip(resp.stdout), stderr |-> Strip(resp.stderr)]
    ELSE [success |-> FALSE, stdout |-> <<>>, stderr |-> <<"Command", "timed", "out">>]

\* cs_ban_ip
cs_ban_ip(ip_address, reason, duration, resp) ==
    IF ip_address = "" \/ reason = "" \/ duration = "" THEN FALSE
    ELSE run_docker_command(resp).success

\* cs_unban_ip
cs_unban_ip(ip_address, resp) ==
    IF ip_address = "" THEN FALSE
    ELSE LET r == run_docker_command(resp) IN
         IF Contains(DecisionsDeleted, Lower(r.stdout)) \/ Contains(NoActiveDecision, Lower(r.stdout))
         THEN TRUE
         ELSE r.success

\* The control surface.  "decisions delete --ip": with an active decision it
\* deletes it and says so; with none it reports that, on either stream and
\* with either exit status; or the call fails and the store is untouched.
DeletedMsgs == {<<"1", "decision(s)", "deleted", "NL">>}
NothingMsgs == {<<"0", "decision(s)", "deleted", "NL">>,
                <<"No", "active", "decision", "for", "ip", "NL">>,
                <<"no", "active", "decision", "for", "ip">>}
ErrorMsg == <<"unable", "to", "reach", "LAPI", "NL">>

DeleteResponses(st, ip) ==
    {TimedOut, Completed(1, <<>>, ErrorMsg)}
    \cup (IF ip \in st
          THEN {Completed(0, m, <<>>) : m \in DeletedMsgs} \cup {Completed(0, <<>>, m) : m \in DeletedMsgs}
          ELSE {Completed(rc, m, <<>>) : rc \in {0, 1}, m \in NothingMsgs}
               \cup {Completed(rc, <<>>, m) : rc \in {0, 1}, m \in NothingMsgs})

StoreAfterDelete(st, ip, resp) ==
    IF resp.kind = "completed" /\ resp.returncode = 0 THEN st \ {ip} ELSE st

\* "decisions add --ip": accepted, rejected, or the call times out (the
\* decision may or may not have been stored by then)
AddResponses == {Completed(0, <<>>, <<"Decision", "successfully", "added", "NL">>),
                 Completed(1, <<>>, ErrorMsg), TimedOut}

StoresAfterAdd(st, ip, resp) ==
    IF resp.kind = "completed"
    THEN IF resp.returncode = 0 THEN {st \cup {ip}} ELSE {st}
    ELSE {st, st \cup {ip}}

ClientIps == {"", TEST_IP_TO_BAN, "5.6.7.8"}
MaxCalls == 2

ClientIdle == unbanLog = <<>>

ClientInit ==
    /\ store \in SUBSET (ClientIps \ {""})
    /\ unbanLog = <<>>

\* a direct cs_unban_ip(ip) call (the --unban-ip command)
UnbanIp ==
    /\ Len(unbanLog) < MaxCalls
    /\ \E ip \in ClientIps :
         IF ip = ""
         THEN /\ unbanLog' = Append(unbanLog, [ip |-> ip, resp |-> TimedOut, called |-> FALSE,
                                               ret |-> cs_unban_ip(ip, TimedOut)])
              /\ UNCHANGED store
         ELSE \E resp \in DeleteResponses(store, ip) :
                /\ unbanLog' = Append(unbanLog, [ip |-> ip, resp |-> resp, called |-> TRUE,
                                                 ret |-> cs_unban_ip(ip, resp)])
                /\ store' = StoreAfterDelete(store, ip, resp)
    /\ UNCHANGED notClientVars

\* a direct cs_ban_ip(ip, reason, duration) call (the --ban-ip command)
BanIp ==
    /\ Len(unbanLog) < MaxCalls
    /\ \E ip \in ClientIps \ {""}, resp \in AddResponses :
         store' \in StoresAfterAdd(store, ip, resp)
    /\ UNCHANGED unbanLog
    /\ UNCHANGED notClientVars

ClientNext ==
    \/ UnbanIp
    \/ BanIp

\* ------------------------------------------------------------------------
\* crowdsec_tester.py
\* ------------------------------------------------------------------------
\* the status codes a response can carry
Statuses == {EXPECTED_STATUS_ALLOWED, EXPECTED_STATUS_BLOCKED, 500}

\* what requests.get can do: return a response, or raise Timeout,
\* ConnectionError or another RequestException
Response(status_code) == [kind |-> "response", status_code |-> status_code]
Raises(exc) == [kind |-> exc, status_code |-> 0]
TransportFailures == {"Timeout", "ConnectionError", "RequestException"}
ProbeOutcomes == {Response(c) : c \in Statuses} \cup {Raises(e) : e \in TransportFailures}

\* check_test_service_access that reports a timed-out request as blocked
check_test_service_access_TimeoutBlocked(outcome) ==
    IF outcome.kind = "response" THEN outcome.status_code
    ELSE IF outcome.kind = "Timeout" THEN EXPECTED_STATUS_BLOCKED
    ELSE -1

\* check_test_service_access, lines 430-456: the returned status
check_test_service_access(outcome) ==
    IF outcome.kind = "response" THEN outcome.status_code
    ELSE IF outcome.kind = "Timeout" THEN -1
    ELSE IF outcome.kind = "ConnectionError" THEN -1
    ELSE -1

\* check_test_service_access, lines 421-428: the headers of the GET request
TEST_SERVICE_HOST_HEADER == "test-service.yourdomain.com"
RequestHeaders(custom_host_header) ==
    [h \in {"Host", "User-Agent"} |->
       IF h = "Host"
       THEN (IF custom_host_header # "" THEN custom_host_header ELSE TEST_SERVICE_HOST_HEADER)
       ELSE "CrowdSecIntegrationTester/1.2"]

\* _print_test_step_result
_print_test_step_result(expected_status, actual_status) == expected_status = actual_status

\* all(passed for _, passed in test_step_results)
\* AllPassed that looks at the last recorded step only
AllPassed_LastOnly(results) == results = <<>> \/ results[Len(results)].passed

AllPassed(results) == \A i \in DOMAIN results : results[i].passed

StepResult(name, passed) == [name |-> name, passed |-> passed]

TestArgs == [dry_run : BOOLEAN, spreadsheet_id : {"", "sheet-id"}, credentials_file : {"", "creds.json"}]

\* the sink call made from the tester, with the caller's dry_run
TestSink(sinkFails) ==
    IF SinkConfigured(t_args)
    THEN log_error_to_google_sheets(t_args.spreadsheet_id, t_args.credentials_file,
                                    t_args.dry_run, credsOnDisk, sinkFails)
    ELSE "returned"

TryLabels == {"cleanup", "sleep1", "step1", "ban", "sleep2", "step2", "unban", "sleep3", "step3"}

TestIdle ==
    /\ t_pc = "idle"
    /\ t_args = [dry_run |-> FALSE, spreadsheet_id |-> "", credentials_file |-> ""]
    /\ trace = <<>>
    /\ test_step_results = <<>>
    /\ t_result = "none"
    /\ probes = <<>>
    /\ probeHeaders = <<>>
    /\ probeOutcomes = <<>>
    /\ banInitiated = "none"
    /\ interrupted = FALSE
    /\ unexpected = FALSE
    /\ failAt = 0

\* run_crowdsec_integration_tests is entered without containers_to_test
TestInit ==
    /\ t_pc = "cleanup"
    /\ t_args \in TestArgs
    /\ credsOnDisk \in BOOLEAN
    /\ store \in SUBSET {TEST_IP_TO_BAN}
    /\ trace = <<>>
    /\ test_step_results = <<>>
    /\ t_result = "none"
    /\ probes = <<>>
    /\ probeHeaders = <<>>
    /\ probeOutcomes = <<>>
    /\ banInitiated = "none"
    /\ interrupted = FALSE
    /\ unexpected = FALSE
    /\ failAt = 0

\* _unban_test_ip: issue the delete request; its result is only logged
UnbanTestIp ==
    \E resp \in DeleteResponses(store, TEST_IP_TO_BAN) :
      /\ trace' = Append(trace, "unban")
      /\ store' = StoreAfterDelete(store, TEST_IP_TO_BAN, resp)

\* lines 704-709: initial cleanup
TestInitialCleanup ==
    /\ t_pc = "cleanup"
    /\ UnbanTestIp
    /\ t_pc' = "sleep1"
    /\ UNCHANGED <<t_args, test_step_results, t_result, probes, probeHeaders, probeOutcomes, banInitiated,
                   interrupted, unexpected, failAt, credsOnDisk>>
    /\ UNCHANGED notTestVars

\* line 712: time.sleep(BOUNCER_SYNC_DELAY_SECONDS)
TestSleep1 ==
    /\ t_pc = "sleep1"
    /\ trace' = Append(trace, "wait")
    /\ t_pc' = "step1"
    /\ UNCHANGED <<t_args, test_step_results, t_result, probes, probeHeaders, probeOutcomes, banInitiated,
                   interrupted, unexpected, failAt, credsOnDisk, store>>
    /\ UNCHANGED notTestVars

\* lines 715-727: Step 1, access allowed; a failure is reported and aborts
TestStep1 ==
    /\ t_pc = "step1"
    /\ \E outcome \in ProbeOutcomes, sinkFails \in BOOLEAN :
         LET status == check_test_service_access(outcome)
             passed == _print_test_step_result(EXPECTED_STATUS_ALLOWED, status) IN
         /\ trace' = Append(trace, "probe")
         /\ probes' = Append(probes, status)
         /\ probeHeaders' = Append(probeHeaders, RequestHeaders(""))
         /\ probeOutcomes' = Append(probeOutcomes, outcome)
         /\ test_step_results' = Append(test_step_results, StepResult("Step 1", passed))
         /\ t_pc' = IF passed THEN "ban"
                    ELSE IF TestSink(sinkFails) = "raised" THEN "except_exception"
                    ELSE "except_assertion"
    /\ UNCHANGED <<t_args, t_result, banInitiated, interrupted, unexpected, failAt,
                   credsOnDisk, store>>
    /\ UNCHANGED notTestVars

\* TestBan that carries on with the unban when the ban failed, as
\* run_crowdsec_container_tests does
TestBan_NoAbort ==
    /\ t_pc = "ban"
    /\ \E resp \in AddResponses :
         LET ban_initiated == cs_ban_ip(TEST_IP_TO_BAN, "Automated Test Ban", "1m", resp) IN
         /\ trace' = Append(trace, "ban")
         /\ store' \in StoresAfterAdd(store, TEST_IP_TO_BAN, resp)
         /\ banInitiated' = IF ban_initiated THEN "true" ELSE "false"
         /\ t_pc' = IF ban_initiated THEN "sleep2" ELSE "unban"
         /\ UNCHANGED test_step_results
    /\ UNCHANGED <<t_args, t_result, probes, probeHeaders, probeOutcomes, interrupted, unexpected, failAt, credsOnDisk>>
    /\ UNCHANGED notTestVars

\* lines 731-737: ban the test IP; a failed ban marks Steps 2 and 3 failed
\* and aborts
TestBan ==
    /\ t_pc = "ban"
    /\ \E resp \in AddResponses :
         LET ban_initiated == cs_ban_ip(TEST_IP_TO_BAN, "Automated Test Ban", "1m", resp) IN
         /\ trace' = Append(trace, "ban")
         /\ store' \in StoresAfterAdd(store, TEST_IP_TO_BAN, resp)
         /\ banInitiated' = IF ban_initiated THEN "true" ELSE "false"
         /\ IF ~ban_initiated
            THEN /\ test_step_results' = test_step_results
                                         \o <<StepResult("Step 2", FALSE), StepResult("Step 3", FALSE)>>
                 /\ t_pc' = "except_assertion"
            ELSE /\ t_pc' = "sleep2"
                 /\ UNCHANGED test_step_results
    /\ UNCHANGED <<t_args, t_result, probes, probeHeaders, probeOutcomes, interrupted, unexpected, failAt, credsOnDisk>>
    /\ UNCHANGED notTestVars

\* TestSleep2 without the wait for the bouncer
TestSleep2_NoWait ==
    /\ t_pc = "sleep2"
    /\ t_pc' = "step2"
    /\ UNCHANGED <<t_args, trace, test_step_results, t_result, probes, probeHeaders, probeOutcomes, banInitiated,
                   interrupted, unexpected, failAt, credsOnDisk, store>>
    /\ UNCHANGED notTestVars

\* line 740
TestSleep2 ==
    /\ t_pc = "sleep2"
    /\ trace' = Append(trace, "wait")
    /\ t_pc' = "step2"
    /\ UNCHANGED <<t_args, test_step_results, t_result, probes, probeHeaders, probeOutcomes, banInitiated,
                   interrupted, unexpected, failAt, credsOnDisk, store>>
    /\ UNCHANGED notTestVars

\* lines 743-753: Step 2, access blocked; a failure is reported, not raised
TestStep2 ==
    /\ t_pc = "step2"
    /\ \E outcome \in ProbeOutcomes, sinkFails \in BOOLEAN :
         LET status == check_test_service_access(outcome)
             passed == _print_test_step_result(EXPECTED_STATUS_BLOCKED, status) IN
         /\ trace' = Append(trace, "probe")
         /\ probes' = Append(probes, status)
         /\ probeHeaders' = Append(probeHeaders, RequestHeaders(""))
         /\ probeOutcomes' = Append(probeOutcomes, outcome)
         /\ test_step_results' = Append(test_step_results, StepResult("Step 2", passed))
         /\ t_pc' = IF ~passed /\ TestSink(sinkFails) = "raised" THEN "except_exception"
                    ELSE "unban"
    /\ UNCHANGED <<t_args, t_result, banInitiated, interrupted, unexpected, failAt,
                   credsOnDisk, store>>
    /\ UNCHANGED notTestVars

\* lines 757-760: unban for the restoration test
TestUnban ==
    /\ t_pc = "unban"
    /\ UnbanTestIp
    /\ t_pc' = "sleep3"
    /\ UNCHANGED <<t_args, test_step_results, t_result, probes, probeHeaders, probeOutcomes, banInitiated,
                   interrupted, unexpected, failAt, credsOnDisk>>
    /\ UNCHANGED notTestVars

\* line 763
TestSleep3 ==
    /\ t_pc = "sleep3"
    /\ trace' = Append(trace, "wait")
    /\ t_pc' = "step3"
    /\ UNCHANGED <<t_args, test_step_results, t_result, probes, probeHeaders, probeOutcomes, banInitiated,
                   interrupted, unexpected, failAt, credsOnDisk, store>>
    /\ UNCHANGED notTestVars

\* lines 766-778: Step 3, access restored; return the AND of the steps
TestStep3 ==
    /\ t_pc = "step3"
    /\ \E outcome \in ProbeOutcomes, sinkFails \in BOOLEAN :
         LET status == check_test_service_access(outcome)
             passed == _print_test_step_result(EXPECTED_STATUS_ALLOWED, status) IN
         /\ trace' = Append(trace, "probe")
         /\ probes' = Append(probes, status)
         /\ probeHeaders' = Append(probeHeaders, RequestHeaders(""))
         /\ probeOutcomes' = Append(probeOutcomes, outcome)
         /\ test_step_results' = Append(test_step_results, StepResult("Step 3", passed))
         /\ IF ~passed /\ TestSink(sinkFails) = "raised"
            THEN /\ t_pc' = "except_exception"
                 /\ UNCHANGED t_result
            ELSE /\ t_pc' = "done"
                 /\ t_result' = IF AllPassed(test_step_results') THEN "true" ELSE "false"
    /\ UNCHANGED <<t_args, banInitiated, interrupted, unexpected, failAt, credsOnDisk, store>>
    /\ UNCHANGED notTestVars

\* lines 780-785: except AssertionError
ExceptAssertionError ==
    /\ t_pc = "except_assertion"
    /\ UnbanTestIp
    /\ t_result' = "false"
    /\ t_pc' = "done"
    /\ UNCHANGED <<t_args, test_step_results, probes, probeHeaders, probeOutcomes, banInitiated,
                   interrupted, unexpected, failAt, credsOnDisk>>
    /\ UNCHANGED notTestVars

\* lines 786-790: except KeyboardInterrupt
ExceptKeyboardInterrupt ==
    /\ t_pc = "except_interrupt"
    /\ UnbanTestIp
    /\ t_result' = "false"
    /\ t_pc' = "done"
    /\ UNCHANGED <<t_args, test_step_results, probes, probeHeaders, probeOutcomes, banInitiated,
                   interrupted, unexpected, failAt, credsOnDisk>>
    /\ UNCHANGED notTestVars

\* lines 791-798: except Exception: report to the sink, then unban
ExceptException ==
    /\ t_pc = "except_exception"
    /\ \E sinkFails \in BOOLEAN :
         IF TestSink(sinkFails) = "raised"
         THEN /\ t_result' = "raised"
              /\ UNCHANGED <<trace, store>>
         ELSE /\ UnbanTestIp
              /\ t_result' = "false"
    /\ t_pc' = "done"
    /\ UNCHANGED <<t_args, test_step_results, probes, probeHeaders, probeOutcomes, banInitiated,
                   interrupted, unexpected, failAt, credsOnDisk>>
    /\ UNCHANGED notTestVars

\* Ctrl-C while the try block (lines 702-778) runs
KeyboardInterrupt ==
    /\ t_pc \in TryLabels
    /\ interrupted' = TRUE
    /\ failAt' = Len(trace)
    /\ t_pc' = "except_interrupt"
    /\ UNCHANGED <<t_args, trace, test_step_results, t_result, probes, probeHeaders, probeOutcomes, banInitiated,
                   unexpected, credsOnDisk, store>>
    /\ UNCHANGED notTestVars

\* any other exception raised by a statement of the try block
UnexpectedException ==
    /\ t_pc \in TryLabels
    /\ unexpected' = TRUE
    /\ failAt' = Len(trace)
    /\ t_pc' = "except_exception"
    /\ UNCHANGED <<t_args, trace, test_step_results, t_result, probes, probeHeaders, probeOutcomes, banInitiated,
                   interrupted, credsOnDisk, store>>
    /\ UNCHANGED notTestVars

TestNext ==
    \/ TestInitialCleanup
    \/ TestSleep1
    \/ TestStep1
    \/ TestBan
    \/ TestSleep2
    \/ TestStep2
    \/ TestUnban
    \/ TestSleep3
    \/ TestStep3
    \/ ExceptAssertionError
    \/ ExceptKeyboardInterrupt
    \/ ExceptException
    \/ KeyboardInterrupt
    \/ UnexpectedException

\* ------------------------------------------------------------------------
\* crowdsec_tester.py: run_crowdsec_container_tests
\* ------------------------------------------------------------------------
ContainerNames == {"wp_example_com", "traefik"}

\* check_container_service_access, lines 474-477: the host header of a
\* container, for the container names above
ContainerHostHeader(container_name) ==
    IF container_name = "wp_example_com" THEN "example.com" ELSE "traefik"

ContainerTryLabels == {"c_cleanup", "c_sleep1", "c_step1", "c_ban", "c_sleep2", "c_step2",
                       "c_unban", "c_sleep3", "c_step3"}

ContainerInit ==
    /\ t_pc = "c_entry"
    /\ t_args \in [dry_run : BOOLEAN, spreadsheet_id : {"", "sheet-id"},
                   credentials_file : {"", "creds.json"}, container_name : ContainerNames]
    /\ credsOnDisk \in BOOLEAN
    /\ store \in SUBSET {TEST_IP_TO_BAN}
    /\ trace = <<>>
    /\ test_step_results = <<>>
    /\ t_result = "none"
    /\ probes = <<>>
    /\ probeHeaders = <<>>
    /\ probeOutcomes = <<>>
    /\ banInitiated = "none"
    /\ interrupted = FALSE
    /\ unexpected = FALSE
    /\ failAt = 0

\* lines 538-541: a dry run returns True at once
ContainerEntry ==
    /\ t_pc = "c_entry"
    /\ IF t_args.dry_run
       THEN t_pc' = "done" /\ t_result' = "true"
       ELSE t_pc' = "c_cleanup" /\ UNCHANGED t_result
    /\ UNCHANGED <<t_args, trace, test_step_results, probes, probeHeaders, probeOutcomes,
                   banInitiated, interrupted, unexpected, failAt, credsOnDisk, store>>
    /\ UNCHANGED notTestVars

\* lines 562-563: initial cleanup
ContainerInitialCleanup ==
    /\ t_pc = "c_cleanup"
    /\ UnbanTestIp
    /\ t_pc' = "c_sleep1"
    /\ UNCHANGED <<t_args, test_step_results, t_result, probes, probeHeaders, probeOutcomes,
                   banInitiated, interrupted, unexpected, failAt, credsOnDisk>>
    /\ UNCHANGED notTestVars

\* lines 564, 581 and 599: time.sleep(BOUNCER_SYNC_DELAY_SECONDS)
ContainerSleep ==
    /\ t_pc \in {"c_sleep1", "c_sleep2", "c_sleep3"}
    /\ trace' = Append(trace, "wait")
    /\ t_pc' = IF t_pc = "c_sleep1" THEN "c_step1"
               ELSE IF t_pc = "c_sleep2" THEN "c_step2" ELSE "c_step3"
    /\ UNCHANGED <<t_args, test_step_results, t_result, probes, probeHeaders, probeOutcomes,
                   banInitiated, interrupted, unexpected, failAt, credsOnDisk, store>>
    /\ UNCHANGED notTestVars

\* lines 566-573: Step 1; a failure is noted and does not abort
ContainerStep1 ==
    /\ t_pc = "c_step1"
    /\ \E outcome \in ProbeOutcomes :
         LET status == check_test_service_access(outcome)
             passed == _print_test_step_result(EXPECTED_STATUS_ALLOWED, status) IN
         /\ trace' = Append(trace, "probe")
         /\ probes' = Append(probes, status)
         /\ probeHeaders' = Append(probeHeaders,
                                   RequestHeaders(ContainerHostHeader(t_args.container_name)))
         /\ probeOutcomes' = Append(probeOutcomes, outcome)
         /\ test_step_results' = Append(test_step_results, StepResult("Step 1", passed))
    /\ t_pc' = "c_ban"
    /\ UNCHANGED <<t_args, t_result, banInitiated, interrupted, unexpected, failAt,
                   credsOnDisk, store>>
    /\ UNCHANGED notTestVars

\* lines 575-579: ban the test IP; Step 2 is run only if the ban was made
ContainerBan ==
    /\ t_pc = "c_ban"
    /\ \E resp \in AddResponses :
         LET ban_initiated == cs_ban_ip(TEST_IP_TO_BAN, "Test ban for container", "1m", resp) IN
         /\ trace' = Append(trace, "ban")
         /\ store' \in StoresAfterAdd(store, TEST_IP_TO_BAN, resp)
         /\ banInitiated' = IF ban_initiated THEN "true" ELSE "false"
         /\ t_pc' = IF ban_initiated THEN "c_sleep2" ELSE "c_unban"
    /\ UNCHANGED <<t_args, test_step_results, t_result, probes, probeHeaders, probeOutcomes,
                   interrupted, unexpected, failAt, credsOnDisk>>
    /\ UNCHANGED notTestVars

\* lines 583-594: Step 2; a failure is reported to the sink
ContainerStep2 ==
    /\ t_pc = "c_step2"
    /\ \E outcome \in ProbeOutcomes, sinkFails \in BOOLEAN :
         LET status == check_test_service_access(outcome)
             passed == _print_test_step_result(EXPECTED_STATUS_BLOCKED, status) IN
         /\ trace' = Append(trace, "probe")
         /\ probes' = Append(probes, status)
         /\ probeHeaders' = Append(probeHeaders,
                                   RequestHeaders(ContainerHostHeader(t_args.container_name)))
         /\ probeOutcomes' = Append(probeOutcomes, outcome)
         /\ test_step_results' = Append(test_step_results, StepResult("Step 2", passed))
         /\ t_pc' = IF ~passed /\ TestSink(sinkFails) = "raised" THEN "c_except" ELSE "c_unban"
    /\ UNCHANGED <<t_args, t_result, banInitiated, interrupted, unexpected, failAt,
                   credsOnDisk, store>>
    /\ UNCHANGED notTestVars

\* lines 596-598: unban
ContainerUnban ==
    /\ t_pc = "c_unban"
    /\ UnbanTestIp
    /\ t_pc' = "c_sleep3"
    /\ UNCHANGED <<t_args, test_step_results, t_result, probes, probeHeaders, probeOutcomes,
                   banInitiated, interrupted, unexpected, failAt, credsOnDisk>>
    /\ UNCHANGED notTestVars

\* lines 601-615: Step 3; return the AND of the recorded steps
ContainerStep3 ==
    /\ t_pc = "c_step3"
    /\ \E outcome \in ProbeOutcomes, sinkFails \in BOOLEAN :
         LET status == check_test_service_access(outcome)
             passed == _print_test_step_result(EXPECTED_STATUS_ALLOWED, status) IN
         /\ trace' = Append(trace, "probe")
         /\ probes' = Append(probes, status)
         /\ probeHeaders' = Append(probeHeaders,
                                   RequestHeaders(ContainerHostHeader(t_args.container_name)))
         /\ probeOutcomes' = Append(probeOutcomes, outcome)
         /\ test_step_results' = Append(test_step_results, StepResult("Step 3", passed))
         /\ IF ~passed /\ TestSink(sinkFails) = "raised"
            THEN /\ t_pc' = "c_except"
                 /\ UNCHANGED t_result
            ELSE /\ t_pc' = "done"
                 /\ t_result' = IF AllPassed(test_step_results') THEN "true" ELSE "false"
    /\ UNCHANGED <<t_args, banInitiated, interrupted, unexpected, failAt, credsOnDisk, store>>
    /\ UNCHANGED notTestVars

\* lines 617-620: except Exception: unban and return False
ContainerExcept ==
    /\ t_pc = "c_except"
    /\ UnbanTestIp
    /\ t_result' = "false"
    /\ t_pc' = "done"
    /\ UNCHANGED <<t_args, test_step_results, probes, probeHeaders, probeOutcomes,
                   banInitiated, interrupted, unexpected, failAt, credsOnDisk>>
    /\ UNCHANGED notTestVars

\* Ctrl-C while the try block (lines 560-615) runs: no except clause catches
\* KeyboardInterrupt, the finally block prints the summary and the exception
\* leaves the function
ContainerKeyboardInterrupt ==
    /\ t_pc \in ContainerTryLabels
    /\ interrupted' = TRUE
    /\ failAt' = Len(trace)
    /\ t_result' = "raised"
    /\ t_pc' = "done"
    /\ UNCHANGED <<t_args, trace, test_step_results, probes, probeHeaders, probeOutcomes,
                   banInitiated, unexpected, credsOnDisk, store>>
    /\ UNCHANGED notTestVars

\* any other exception raised by a statement of the try block
ContainerUnexpectedException ==
    /\ t_pc \in ContainerTryLabels
    /\ unexpected' = TRUE
    /\ failAt' = Len(trace)
    /\ t_pc' = "c_except"
    /\ UNCHANGED <<t_args, trace, test_step_results, t_result, probes, probeHeaders,
                   probeOutcomes, banInitiated, interrupted, credsOnDisk, store>>
    /\ UNCHANGED notTestVars

ContainerNext ==
    \/ ContainerEntry
    \/ ContainerInitialCleanup
    \/ ContainerSleep
    \/ ContainerStep1
    \/ ContainerBan
    \/ ContainerStep2
    \/ ContainerUnban
    \/ ContainerStep3
    \/ ContainerExcept
    \/ ContainerKeyboardInterrupt
    \/ ContainerUnexpectedException

\* ------------------------------------------------------------------------
\* error_handler.py: a caller driving a TransactionManager directly
\* ------------------------------------------------------------------------
MaxTMCalls == 3

NoCopy == [ok |-> FALSE, written |-> -1]
TMCallRecord(op, raised, ret, oc, written, t, fs) ==
    [op |-> op, raised |-> raised, ret |-> ret, oc |-> oc, log |-> written,
     tmBefore |-> t, fsBefore |-> fs]
NoCall == TMCallRecord("none", FALSE, FALSE, NoCopy, {}, NoTM, [p \in AllPaths |-> Absent])

TMIdle == tmCall = NoCall /\ tmCount = 0

\* a TransactionManager for the current configuration, built with no backup
\* path or with the path of a backup that may or may not exist
TMInit ==
    /\ \E cur \in FileStates, bak \in FileStates :
          files = [p \in AllPaths |-> IF p = CurrentConfig THEN cur
                                      ELSE IF p = BackupPathFor(CurrentConfig, 0) THEN bak
                                      ELSE Absent]
    /\ now = 0
    /\ args \in {a \in DeployArgs : ~a.skip_backup /\ ~a.dry_run}
    /\ credsOnDisk \in BOOLEAN
    /\ pc = "tm"
    /\ backup_file_path \in {NoPath, BackupPathFor(CurrentConfig, 0)}
    /\ tm = TransactionManager(CurrentConfig, backup_file_path, files)
    /\ result = "none"
    /\ log = {}
    /\ files0 = files
    /\ copyFailed = FALSE
    /\ rollbackCalls = 0
    /\ sinkRaised = FALSE
    /\ TMIdle

\* tm.start_deployment()
TMStart ==
    /\ pc = "tm"
    /\ tmCount < MaxTMCalls
    /\ LET s == start_deployment(tm, files) IN
       /\ tm' = s.tm
       /\ tmCall' = TMCallRecord("start", s.raised, FALSE, NoCopy, {}, tm, files)
    /\ tmCount' = tmCount + 1
    /\ UNCHANGED <<files, now, args, credsOnDisk, pc, backup_file_path, result, log, files0,
                   copyFailed, rollbackCalls, sinkRaised>>
    /\ UNCHANGED outsideTMVars

\* tm.rollback()
TMRollback ==
    /\ pc = "tm"
    /\ tmCount < MaxTMCalls
    /\ \E oc \in CopyOutcomes(files, tm.backup_path) :
         LET rb == rollback(tm, files, oc) IN
         /\ tm' = rb.tm
         /\ files' = rb.fs
         /\ tmCall' = TMCallRecord("rollback", FALSE, rb.ret, oc, rb.log, tm, files)
    /\ tmCount' = tmCount + 1
    /\ UNCHANGED <<now, args, credsOnDisk, pc, backup_file_path, result, log, files0,
                   copyFailed, rollbackCalls, sinkRaised>>
    /\ UNCHANGED outsideTMVars

\* TMCleanup that removes the backup after a successful deployment
TMCleanup_RemoveBackup ==
    /\ pc = "tm"
    /\ tmCount < MaxTMCalls
    /\ tmCall' = TMCallRecord("cleanup", FALSE, FALSE, NoCopy, cleanup(tm, files), tm, files)
    /\ files' = IF tm.deployment_started /\ ~tm.rollback_performed /\ PathExists(files, tm.backup_path)
                THEN [files EXCEPT ![tm.backup_path] = Absent]
                ELSE files
    /\ tmCount' = tmCount + 1
    /\ UNCHANGED <<now, args, credsOnDisk, pc, backup_file_path, tm, result, log, files0,
                   copyFailed, rollbackCalls, sinkRaised>>
    /\ UNCHANGED outsideTMVars

\* tm.cleanup()
TMCleanup ==
    /\ pc = "tm"
    /\ tmCount < MaxTMCalls
    /\ tmCall' = TMCallRecord("cleanup", FALSE, FALSE, NoCopy, cleanup(tm, files), tm, files)
    /\ tmCount' = tmCount + 1
    /\ UNCHANGED <<files, now, args, credsOnDisk, pc, backup_file_path, tm, result, log, files0,
                   copyFailed, rollbackCalls, sinkRaised>>
    /\ UNCHANGED outsideTMVars

\* the operation the transaction guards raises: the caller hands the error
\* and the manager to handle_deployment_error
TMOperationFails ==
    /\ pc = "tm"
    /\ pc' = "handle"
    /\ copyFailed' = TRUE
    /\ UNCHANGED <<files, now, args, credsOnDisk, backup_file_path, tm, result, log, files0,
                   rollbackCalls, sinkRaised>>
    /\ UNCHANGED notDeployVars

TMNext ==
    \/ TMStart
    \/ TMRollback
    \/ TMCleanup
    \/ TMOperationFails
    \/ handle_deployment_error

\* ------------------------------------------------------------------------
\* main_script.py --backup-conf: backup_config_file called by the operator
\* ------------------------------------------------------------------------
MaxBackupCalls == 2

BackupIdle == backupLog = <<>>

BackupInit ==
    /\ \E cur \in FileStates :
          files = [p \in AllPaths |-> IF p = CurrentConfig THEN cur ELSE Absent]
    /\ now \in 0..MaxClock
    /\ args \in {a \in DeployArgs : ~a.skip_backup /\ a.spreadsheet_id = "" /\ a.credentials_file = ""}
    /\ pc = "backup_conf"
    /\ backup_file_path = NoPath
    /\ tm = NoTM
    /\ result = "none"
    /\ log = {}
    /\ files0 = files
    /\ copyFailed = FALSE
    /\ rollbackCalls = 0
    /\ sinkRaised = FALSE
    /\ backupLog = <<>>

\* main_script.py line 320: backup_config_file(args.backup_conf, args.dry_run)
BackupConf ==
    /\ pc = "backup_conf"
    /\ Len(backupLog) < MaxBackupCalls
    /\ \E oc \in CopyOutcomes(files, CurrentConfig) :
         LET b == backup_config_file(files, CurrentConfig, now, args.dry_run, oc) IN
         /\ files' = b.fs
         /\ backup_file_path' = b.ret
         /\ backupLog' = Append(backupLog, [at |-> now, ret |-> b.ret, dry_run |-> args.dry_run,
                                            source |-> files[CurrentConfig]])
    /\ UNCHANGED <<now, args, credsOnDisk, pc, tm, result, log, files0, copyFailed,
                   rollbackCalls, sinkRaised>>
    /\ UNCHANGED outsideBackupVars

\* a second passes
Tick ==
    /\ pc = "backup_conf"
    /\ now < MaxClock
    /\ now' = now + 1
    /\ UNCHANGED <<files, args, credsOnDisk, pc, backup_file_path, tm, result, log, files0,
                   copyFailed, rollbackCalls, sinkRaised>>
    /\ UNCHANGED notDeployVars

\* the configuration is edited between two backups
EditConfig ==
    /\ pc = "backup_conf"
    /\ Len(backupLog) = 1
    /\ \E d \in Contents : files' = [files EXCEPT ![CurrentConfig] = FileOf(d)]
    /\ UNCHANGED <<now, args, credsOnDisk, pc, backup_file_path, tm, result, log, files0,
                   copyFailed, rollbackCalls, sinkRaised>>
    /\ UNCHANGED notDeployVars

BackupNext ==
    \/ BackupConf
    \/ Tick
    \/ EditConfig

\* ------------------------------------------------------------------------
\* main_script.py: the command-line entry point
\* ------------------------------------------------------------------------
MainArgs == [action : {"test_only", "deploy_conf"}, skip_tests : BOOLEAN]

MainIdle == m_pc = "idle" /\ m_args = [action |-> "none", skip_tests |-> FALSE] /\ exit_code = -1

\* the arguments main passes to run_crowdsec_integration_tests
TestArgsOfMain ==
    [dry_run |-> args.dry_run, spreadsheet_id |-> args.spreadsheet_id,
     credentials_file |-> args.credentials_file]

\* the process starts with --test-only or with --deploy-conf
MainInit ==
    /\ m_pc = "run"
    /\ m_args \in MainArgs
    /\ exit_code = -1
    /\ args \in DeployArgs
    /\ credsOnDisk \in BOOLEAN
    /\ store \in SUBSET {TEST_IP_TO_BAN}
    /\ \E cur \in {Absent, FileOf(<<0>>)}, pend \in {Absent, FileOf(<<1>>)} :
          files = [p \in AllPaths |-> IF p = CurrentConfig THEN cur
                                      ELSE IF p = PendingConfig THEN pend
                                      ELSE Absent]
    /\ now = 0
    /\ pc = IF m_args.action = "deploy_conf" THEN "validate" ELSE "idle"
    /\ backup_file_path = NoPath
    /\ tm = NoTM
    /\ result = "none"
    /\ log = {}
    /\ files0 = files
    /\ copyFailed = FALSE
    /\ rollbackCalls = 0
    /\ sinkRaised = FALSE
    /\ t_pc = IF m_args.action = "test_only" THEN "cleanup" ELSE "idle"
    /\ t_args = IF m_args.action = "test_only" THEN TestArgsOfMain
                ELSE [dry_run |-> FALSE, spreadsheet_id |-> "", credentials_file |-> ""]
    /\ trace = <<>>
    /\ test_step_results = <<>>
    /\ t_result = "none"
    /\ probes = <<>>
    /\ probeHeaders = <<>>
    /\ probeOutcomes = <<>>
    /\ banInitiated = "none"
    /\ interrupted = FALSE
    /\ unexpected = FALSE
    /\ failAt = 0

\* the status the process ends with once a call has ended: an exception that
\* escapes main is caught at lines 392-400 (exit 2); otherwise main returns
\* and the interpreter exits with 0
ExitStatus(call_result) == IF call_result = "raised" THEN 2 ELSE 0

\* lines 280-286: --test-only; the suite's result is stored and not used
MainTestOnlyExit ==
    /\ m_pc = "run"
    /\ m_args.action = "test_only"
    /\ t_pc = "done"
    /\ exit_code' = ExitStatus(t_result)
    /\ m_pc' = "exited"
    /\ UNCHANGED m_args
    /\ UNCHANGED <<testVars, notMainVars>>

\* lines 346-352: after a successful real deployment the tests are run
\* unless --skip-tests was given
TestsFollowDeploy == result = "true" /\ ~m_args.skip_tests /\ ~args.dry_run

MainTestsAfterDeploy ==
    /\ m_pc = "run"
    /\ m_args.action = "deploy_conf"
    /\ pc = "done"
    /\ TestsFollowDeploy
    /\ t_pc' = "cleanup"
    /\ t_args' = TestArgsOfMain
    /\ m_pc' = "tests"
    /\ UNCHANGED <<m_args, exit_code>>
    /\ UNCHANGED <<trace, test_step_results, t_result, probes, probeHeaders, probeOutcomes,
                   banInitiated, interrupted, unexpected, failAt>>
    /\ UNCHANGED notMainVars

\* lines 353-356 and the end of main: the deployment's result is printed
MainDeployExit ==
    /\ m_pc = "run"
    /\ m_args.action = "deploy_conf"
    /\ pc = "done"
    /\ ~TestsFollowDeploy
    /\ exit_code' = ExitStatus(result)
    /\ m_pc' = "exited"
    /\ UNCHANGED m_args
    /\ UNCHANGED <<testVars, notMainVars>>

\* line 352 and the end of main: the result of the tests after a deployment
\* is dropped
MainTestsAfterDeployExit ==
    /\ m_pc = "tests"
    /\ t_pc = "done"
    /\ exit_code' = ExitStatus(t_result)
    /\ m_pc' = "exited"
    /\ UNCHANGED m_args
    /\ UNCHANGED <<testVars, notMainVars>>

MainNext ==
    \/ DeployNext
    \/ TestNext
    \/ MainTestOnlyExit
    \/ MainTestsAfterDeploy
    \/ MainDeployExit
    \/ MainTestsAfterDeployExit

\* ------------------------------------------------------------------------
\* deployment_utils.py: YAML diffing
\* ------------------------------------------------------------------------
\* A YAML value is null, an integer, a list or a mapping.  A mapping is a
\* function from its keys; keys hold no dot, so a dotted path and the
\* sequence of its keys determine each other and a path is kept as the
\* sequence.
MaxDepth == 2

Null == [t |-> "null"]
IntValue(i) == [t |-> "int", i |-> i]
ListValue(l) == [t |-> "list", l |-> l]
DictValue(d) == [t |-> "dict", d |-> d]

Leaves == {Null, IntValue(1), IntValue(2), ListValue(<<1>>)}
TopKeys == {"a", "b"}
NestedKeys == {"x"}

\* the mappings over a subset of keys with values in vals
Mappings(keys, vals) == UNION {[K -> vals] : K \in SUBSET keys}

RECURSIVE ValuesOfDepth(_)
ValuesOfDepth(n) ==
    IF n = 0 THEN Leaves
    ELSE Leaves \cup {DictValue(d) : d \in Mappings(NestedKeys, ValuesOfDepth(n - 1))}

Documents == Mappings(TopKeys, ValuesOfDepth(MaxDepth))

\* dict.get(key): None when the key is absent
Get(d, key) == IF key \in DOMAIN d THEN d[key] ELSE Null

isinstance_dict(v) == v.t = "dict"
isinstance_list(v) == v.t = "list"
IsCollection(v) == isinstance_dict(v) \/ isinstance_list(v)

EmptyDiff == [added |-> <<>>, removed |-> <<>>, modified |-> <<>>]

\* dict.update: the entries of new replace those of old
Update(old, new) == new @@ old
UpdateDiff(old, new) ==
    [added |-> Update(old.added, new.added),
     removed |-> Update(old.removed, new.removed),
     modified |-> Update(old.modified, new.modified)]

\* Modified that records nothing when the new value is null
Modified_DropsNull(path, current, pending) ==
    IF pending = Null THEN EmptyDiff
    ELSE [added |-> <<>>, removed |-> <<>>,
          modified |-> (path :> [from |-> current, to |-> pending])]

Modified(path, current, pending) ==
    [added |-> <<>>, removed |-> <<>>,
     modified |-> (path :> [from |-> current, to |-> pending])]

\* lines 22-72; the keys of a mapping are visited in the order of a set,
\* which does not matter since no two keys give the same path
RECURSIVE _deep_diff_yaml_recursive(_, _, _)
RECURSIVE DiffKeys(_, _, _, _)
DiffKeys(keys, current, pending, path) ==
    IF keys = {} THEN EmptyDiff
    ELSE LET key == CHOOSE k \in keys : TRUE
             res == _deep_diff_yaml_recursive(Get(current, key), Get(pending, key),
                                              Append(path, key))
         IN UpdateDiff(DiffKeys(keys \ {key}, current, pending, path), res)

_deep_diff_yaml_recursive(current, pending, path) ==
    IF current.t # pending.t /\ ~(IsCollection(current) /\ IsCollection(pending))
    THEN (IF path # <<>> THEN Modified(path, current, pending) ELSE EmptyDiff)
    ELSE LET body ==
                 IF isinstance_dict(current) /\ isinstance_dict(pending)
                 THEN DiffKeys(DOMAIN current.d \cup DOMAIN pending.d, current.d, pending.d, path)
                 ELSE IF isinstance_list(current) /\ isinstance_list(pending)
                 THEN (IF current # pending /\ path # <<>>
                       THEN Modified(path, current, pending) ELSE EmptyDiff)
                 ELSE IF current # pending /\ path # <<>>
                 THEN Modified(path, current, pending)
                 ELSE EmptyDiff
         IN IF current = Null /\ pending # Null /\ path # <<>>
            THEN [body EXCEPT !.added = (path :> pending) @@ body.added]
            ELSE IF pending = Null /\ current # Null /\ path # <<>>
            THEN [body EXCEPT !.removed = (path :> current) @@ body.removed]
            ELSE body

\* lines 75-118
RECURSIVE DiffTopKeys(_, _, _)
DiffTopKeys(keys, current_config, pending_config) ==
    IF keys = {} THEN EmptyDiff
    ELSE LET key == CHOOSE k \in keys : TRUE
             path == <<key>>
             current_val == Get(current_config, key)
             pending_val == Get(pending_config, key)
             rest == DiffTopKeys(keys \ {key}, current_config, pending_config)
         IN IF key \notin DOMAIN current_config
            THEN [rest EXCEPT !.added = (path :> pending_val) @@ rest.added]
            ELSE IF key \notin DOMAIN pending_config
            THEN [rest EXCEPT !.removed = (path :> current_val) @@ rest.removed]
            ELSE IF current_val # pending_val
            THEN (IF isinstance_dict(current_val) /\ isinstance_dict(pending_val)
                  THEN UpdateDiff(rest, _deep_diff_yaml_recursive(current_val, pending_val, path))
                  ELSE UpdateDiff(rest, Modified(path, current_val, pending_val)))
            ELSE rest

deep_diff_yaml(current, pending) ==
    DiffTopKeys(DOMAIN current \cup DOMAIN pending, current, pending)

DiffIdle ==
    /\ d_pc = "idle"
    /\ current_doc = <<>>
    /\ pending_doc = <<>>
    /\ diff_summary = EmptyDiff
    /\ diff_reversed = EmptyDiff

\* two loaded documents, not yet compared
DiffInit ==
    /\ d_pc = "loaded"
    /\ current_doc \in Documents
    /\ pending_doc \in Documents
    /\ diff_summary = EmptyDiff
    /\ diff_reversed = EmptyDiff

\* create_diff_report_yaml line 139: deep_diff_yaml(current_config, pending_config)
DiffConfs ==
    /\ d_pc = "loaded"
    /\ diff_summary' = deep_diff_yaml(current_doc, pending_doc)
    /\ d_pc' = "diffed"
    /\ UNCHANGED <<current_doc, pending_doc, diff_reversed>>
    /\ UNCHANGED notDiffVars

\* the same two documents compared the other way round
DiffConfsReversed ==
    /\ d_pc = "diffed"
    /\ diff_reversed' = deep_diff_yaml(pending_doc, current_doc)
    /\ d_pc' = "both"
    /\ UNCHANGED <<current_doc, pending_doc, diff_summary>>
    /\ UNCHANGED notDiffVars

DiffNext ==
    \/ DiffConfs
    \/ DiffConfsReversed

\* ------------------------------------------------------------------------
\* tarball_injector.py
\* ------------------------------------------------------------------------
MaxTarballs == 2

\* file names relative to the target directory; a file is "absent", holds
\* its content from before the call ("old") or a tarball member's ("new")
TarNames == {"f", "g"}
NoFiles == [n \in TarNames |-> "absent"]

\* a tarball is the set of its file members
Tarballs == UNION {[1..k -> SUBSET TarNames] : k \in 0..MaxTarballs}

\* TarballInjectionManager.__init__
TarballInjectionManager ==
    [backup_dir_exists |-> FALSE, backup_created |-> FALSE,
     extraction_performed |-> FALSE, extracted_files |-> {}]

\* _get_files_from_tarballs: the members of all tarballs
_get_files_from_tarballs == UNION {tarballs[i] : i \in DOMAIN tarballs}

TarIdle ==
    /\ tar_pc = "idle"
    /\ tar_args = [dry_run |-> FALSE, cleanup_backup |-> FALSE]
    /\ tarballs = <<>>
    /\ tar_idx = 0
    /\ target_dir = NoFiles
    /\ target_dir0 = NoFiles
    /\ backup_files = NoFiles
    /\ injection_manager = TarballInjectionManager
    /\ tar_result = "none"
    /\ tar_rollback = "none"

TarInit ==
    /\ tar_pc = "entry"
    /\ tar_args \in [dry_run : BOOLEAN, cleanup_backup : BOOLEAN]
    /\ tarballs \in Tarballs
    /\ tar_idx = 0
    /\ target_dir \in [TarNames -> {"absent", "old"}]
    /\ target_dir0 = target_dir
    /\ backup_files = NoFiles
    /\ injection_manager = TarballInjectionManager
    /\ tar_result = "none"
    /\ tar_rollback = "none"

\* lines 268-275: a dry run returns True; otherwise the manager is built
TarEntry ==
    /\ tar_pc = "entry"
    /\ IF tar_args.dry_run
       THEN tar_pc' = "done" /\ tar_result' = "true"
       ELSE tar_pc' = "backup" /\ UNCHANGED tar_result
    /\ UNCHANGED <<tar_args, tarballs, tar_idx, target_dir, target_dir0, backup_files,
                   injection_manager, tar_rollback>>
    /\ UNCHANGED notTarVars

\* create_backup, lines 43-74: copy every existing file a tarball names into
\* the backup directory; a failing copy raises TarballInjectionError with
\* the files copied so far left in the backup directory
TarCreateBackup ==
    /\ tar_pc = "backup"
    /\ LET existing == {n \in _get_files_from_tarballs : target_dir[n] # "absent"} IN
       IF _get_files_from_tarballs = {}
       THEN /\ tar_pc' = "extract"
            /\ UNCHANGED <<backup_files, injection_manager>>
       ELSE \E ok \in BOOLEAN, copied \in SUBSET existing :
              /\ ok => copied = existing
              /\ ~ok => copied # existing
              /\ backup_files' = [n \in TarNames |->
                                     IF n \in copied THEN target_dir[n] ELSE "absent"]
              /\ injection_manager' = [injection_manager EXCEPT !.backup_dir_exists = TRUE,
                                                                !.backup_created = ok]
              /\ tar_pc' = IF ok THEN "extract" ELSE "error"
    /\ UNCHANGED <<tar_args, tarballs, tar_idx, target_dir, target_dir0, tar_result, tar_rollback>>
    /\ UNCHANGED notTarVars

\* extract_tarballs, lines 157-184: one pass of the loop.  tar.extractall
\* either writes every member, after which the members are added to
\* extracted_files, or raises having written some of them; the unsafe-path
\* check raises before anything is written.
TarExtractTarball ==
    /\ tar_pc = "extract"
    /\ tar_idx < Len(tarballs)
    /\ LET members == tarballs[tar_idx + 1] IN
       \E ok \in BOOLEAN, written \in SUBSET members :
         /\ ok => written = members
         /\ target_dir' = [n \in TarNames |-> IF n \in written THEN "new" ELSE target_dir[n]]
         /\ IF ok
            THEN /\ injection_manager' =
                       [injection_manager EXCEPT !.extracted_files = @ \cup members]
                 /\ tar_idx' = tar_idx + 1
                 /\ tar_pc' = "extract"
            ELSE /\ UNCHANGED <<injection_manager, tar_idx>>
                 /\ tar_pc' = "error"
    /\ UNCHANGED <<tar_args, tarballs, target_dir0, backup_files, tar_result, tar_rollback>>
    /\ UNCHANGED notTarVars

\* extract_tarballs, lines 186-192, and inject_tarballs_with_restart, lines
\* 283 and 293-297: after the loop
TarExtracted ==
    /\ tar_pc = "extract"
    /\ tar_idx = Len(tarballs)
    /\ injection_manager' = [injection_manager EXCEPT !.extraction_performed = tar_idx > 0]
    /\ IF tar_idx > 0
       THEN tar_pc' = "restart" /\ UNCHANGED tar_result
       ELSE tar_pc' = "done" /\ tar_result' = "true"
    /\ UNCHANGED <<tar_args, tarballs, tar_idx, target_dir, target_dir0, backup_files, tar_rollback>>
    /\ UNCHANGED notTarVars

\* lines 283-292: restart the stack; then cleanup_backup() if requested,
\* whose rmtree may fail with a warning
TarRestart ==
    /\ tar_pc = "restart"
    /\ \E restarted \in BOOLEAN, removed \in BOOLEAN :
         IF ~restarted
         THEN /\ tar_pc' = "error"
              /\ UNCHANGED <<backup_files, injection_manager, tar_result>>
         ELSE /\ tar_pc' = "done"
              /\ tar_result' = "true"
              /\ IF tar_args.cleanup_backup /\ injection_manager.backup_created
                    /\ injection_manager.backup_dir_exists /\ removed
                 THEN /\ backup_files' = NoFiles
                      /\ injection_manager' = [injection_manager EXCEPT !.backup_dir_exists = FALSE]
                 ELSE UNCHANGED <<backup_files, injection_manager>>
    /\ UNCHANGED <<tar_args, tarballs, tar_idx, target_dir, target_dir0, tar_rollback>>
    /\ UNCHANGED notTarVars

\* TarballInjectionManager.rollback, lines 76-115.  restored: the backup
\* files copied back before a copy failed (all of them when ok);
\* kept: the extracted files whose os.remove failed
TarballRollback(m, target, backup, ok, restored, kept) ==
    IF ~m.backup_created \/ ~m.backup_dir_exists
    THEN [ret |-> FALSE, target |-> target]
    ELSE LET after == [n \in TarNames |-> IF n \in restored THEN backup[n] ELSE target[n]] IN
         IF ~ok THEN [ret |-> FALSE, target |-> after]
         ELSE [ret |-> TRUE,
               target |-> [n \in TarNames |->
                              IF /\ n \in m.extracted_files
                                 /\ after[n] # "absent"
                                 /\ backup[n] = "absent"
                                 /\ n \notin kept
                              THEN "absent" ELSE after[n]]]

\* lines 299-318: except TarballInjectionError: roll back if a backup was
\* created, restart the stack, return False
TarHandleError ==
    /\ tar_pc = "error"
    /\ IF injection_manager.backup_created
       THEN LET backed == {n \in TarNames : backup_files[n] # "absent"} IN
            \E ok \in BOOLEAN, restored \in SUBSET backed, kept \in SUBSET TarNames :
              /\ ok => restored = backed
              /\ ~ok => restored # backed /\ kept = {}
              /\ LET rb == TarballRollback(injection_manager, target_dir, backup_files,
                                           ok, restored, kept) IN
                 /\ target_dir' = rb.target
                 /\ tar_rollback' = IF rb.ret THEN "true" ELSE "false"
       ELSE UNCHANGED <<target_dir, tar_rollback>>
    /\ tar_result' = "false"
    /\ tar_pc' = "done"
    /\ UNCHANGED <<tar_args, tarballs, tar_idx, target_dir0, backup_files, injection_manager>>
    /\ UNCHANGED notTarVars

TarNext ==
    \/ TarEntry
    \/ TarCreateBackup
    \/ TarExtractTarball
    \/ TarExtracted
    \/ TarRestart
    \/ TarHandleError

\* ------------------------------------------------------------------------
\* Specifications
\* ------------------------------------------------------------------------
\* one deploy_new_config call
Init == DeployInit /\ store = {} /\ TestIdle /\ ClientIdle /\ TMIdle /\ BackupIdle /\ MainIdle /\ DiffIdle /\ TarIdle
Next == DeployNext
Spec == Init /\ [][Next]_vars

\* one run_crowdsec_integration_tests call
TestSpecInit == TestInit /\ DeployIdle /\ ClientIdle /\ TMIdle /\ BackupIdle /\ MainIdle /\ DiffIdle /\ TarIdle
TestSpec == TestSpecInit /\ [][TestNext]_vars

\* direct calls of the ban client
ClientSpecInit == ClientInit /\ credsOnDisk = FALSE /\ DeployIdle /\ TestIdle /\ TMIdle /\ BackupIdle /\ MainIdle /\ DiffIdle /\ TarIdle
ClientSpec == ClientSpecInit /\ [][ClientNext]_vars

\* a caller driving one TransactionManager
TMSpecInit == TMInit /\ store = {} /\ TestIdle /\ ClientIdle /\ BackupIdle /\ MainIdle /\ DiffIdle /\ TarIdle
TMSpec == TMSpecInit /\ [][TMNext]_vars

\* the operator taking backups with --backup-conf
BackupSpecInit == BackupInit /\ credsOnDisk = FALSE /\ store = {} /\ TestIdle /\ ClientIdle /\ TMIdle /\ MainIdle /\ DiffIdle /\ TarIdle
BackupSpec == BackupSpecInit /\ [][BackupNext]_vars

\* one run of the command line with --test-only or --deploy-conf
MainSpecInit == MainInit /\ ClientIdle /\ TMIdle /\ BackupIdle /\ DiffIdle /\ TarIdle
MainSpec == MainSpecInit /\ [][MainNext]_vars

\* two documents compared by deep_diff_yaml, in both directions
DiffSpecInit ==
    /\ DiffInit /\ DeployIdle /\ credsOnDisk = FALSE /\ store = {} /\ TestIdle /\ ClientIdle
    /\ TMIdle /\ BackupIdle /\ MainIdle /\ TarIdle
DiffSpec == DiffSpecInit /\ [][DiffNext]_vars

\* one run_crowdsec_container_tests call
ContainerSpecInit ==
    /\ ContainerInit /\ DeployIdle /\ ClientIdle /\ TMIdle /\ BackupIdle /\ MainIdle /\ DiffIdle
    /\ TarIdle
ContainerSpec == ContainerSpecInit /\ [][ContainerNext]_vars

\* one inject_tarballs_with_restart call
TarSpecInit ==
    /\ TarInit /\ DeployIdle /\ credsOnDisk = FALSE /\ store = {} /\ TestIdle /\ ClientIdle
    /\ TMIdle /\ BackupIdle /\ MainIdle /\ DiffIdle
TarSpec == TarSpecInit /\ [][TarNext]_vars

\* ------------------------------------------------------------------------
\* Properties
\* ------------------------------------------------------------------------
Range(seq) == {seq[i] : i \in DOMAIN seq}
FirstIndex(seq, e) == CHOOSE i \in DOMAIN seq : seq[i] = e /\ \A j \in 1..(i - 1) : seq[j] # e
\* what follows the first occurrence of e in seq
After(seq, e) == SubSeq(seq, FirstIndex(seq, e) + 1, Len(seq))

DeployDone == pc = "done"
TestDone == t_pc = "done"

\* C1: rollback safety.  When a real deploy of an existing target, with a
\* backup taken and the transaction started, fails in the copy, the target
\* holds its pre-deploy content when deploy_new_config finishes.  (The
\* restoring copy itself is taken to work: a rollback that fails is the
\* manual-intervention case.)
C1_RollbackSafety ==
    (DeployDone /\ ~args.dry_run /\ files0[CurrentConfig].exists /\ ~args.skip_backup
       /\ backup_file_path # NoPath /\ tm.deployment_started /\ copyFailed
       /\ "rollback_failed" \notin log /\ "rollback_no_backup" \notin log)
    => files[CurrentConfig] = files0[CurrentConfig]

\* C2: deploy_new_config returns True only with the new content in place (or
\* in a dry run), and returns False, never raising, in every failure branch.
C2_ReturnValue ==
    DeployDone =>
      /\ result \in {"true", "false"}
      /\ result = "true" =>
           (args.dry_run \/ files[CurrentConfig] = FileOf(files[PendingConfig].data))
      /\ (~files0[PendingConfig].exists \/ "backup_failed" \in log
            \/ "start_failed" \in log \/ copyFailed) => result = "false"

\* C3: a real run cut short by Ctrl-C or by an unexpected exception issues
\* an unban after the point of failure and returns False.
C3_InterruptCleanup ==
    (TestDone /\ ~t_args.dry_run /\ (interrupted \/ unexpected))
    => /\ t_result = "false"
       /\ \E i \in (failAt + 1)..Len(trace) : trace[i] = "unban"

\* C4: when the Step 1 probe does not return 200 the suite aborts: no ban,
\* no further probe, a cleanup unban, and the result is False.
C4_BaselineAbort ==
    (TestDone /\ probes # <<>> /\ probes[1] # EXPECTED_STATUS_ALLOWED)
    => /\ "ban" \notin Range(trace)
       /\ Len(probes) = 1
       /\ trace = <<"unban", "wait", "probe", "unban">>
       /\ t_result = "false"

\* C5: in a real run where the probes return 200, 403, 200 and the ban is
\* accepted, the external actions are exactly unban, wait, probe, ban, wait,
\* probe, unban, wait, probe; three passed steps are recorded and the result
\* is True.
C5_HappyPath ==
    (TestDone /\ ~t_args.dry_run /\ ~interrupted /\ ~unexpected /\ banInitiated = "true"
       /\ probes = <<EXPECTED_STATUS_ALLOWED, EXPECTED_STATUS_BLOCKED, EXPECTED_STATUS_ALLOWED>>)
    => /\ trace = <<"unban", "wait", "probe", "ban", "wait", "probe", "unban", "wait", "probe">>
       /\ test_step_results = <<StepResult("Step 1", TRUE), StepResult("Step 2", TRUE),
                                StepResult("Step 3", TRUE)>>
       /\ t_result = "true"

C5_Witness ==
    /\ TestDone /\ ~t_args.dry_run /\ banInitiated = "true" /\ t_result = "true"
    /\ probes = <<EXPECTED_STATUS_ALLOWED, EXPECTED_STATUS_BLOCKED, EXPECTED_STATUS_ALLOWED>>

C7_Step2NoAbort ==
    (TestDone /\ banInitiated = "true" /\ ~interrupted /\ ~unexpected)
    => /\ After(trace, "ban") = <<"wait", "probe", "unban", "wait", "probe">>
       /\ ~test_step_results[2].passed => t_result = "false"

\* C8: a failing sink never aborts the deploy: after a failed copy in a
\* started transaction, with the sink configured, the rollback is still
\* attempted and deploy_new_config returns False.
C8_SinkNeverAborts ==
    (DeployDone /\ copyFailed /\ tm.deployment_started /\ SinkConfigured(args))
    => (rollbackCalls >= 1 /\ result = "false")

\* C9: cs_unban_ip with a non-empty ip returns True whenever the control
\* surface reports "no active decision", on either stream and with either
\* exit status.
ReportsNoActiveDecision(resp) ==
    /\ resp.kind = "completed"
    /\ \/ Contains(NoActiveDecision, Lower(resp.stdout))
       \/ Contains(NoActiveDecision, Lower(resp.stderr))

C9_UnbanIdempotent ==
    \A i \in DOMAIN unbanLog :
      (unbanLog[i].ip # "" /\ ReportsNoActiveDecision(unbanLog[i].resp)) => unbanLog[i].ret

\* C10: a dry-run deploy of an existing new configuration returns True and
\* leaves every file, the target and the backups included, as it was.
C10_DryRunDeploy ==
    (DeployDone /\ args.dry_run /\ files0[PendingConfig].exists)
    => (result = "true" /\ files = files0)

C10_Witness ==
    /\ DeployDone /\ args.dry_run /\ result = "true"
    /\ files0[PendingConfig].exists /\ files0[CurrentConfig].exists /\ ~args.skip_backup

\* C11: a dry-run test suite issues no ban, no unban and no probe, leaves
\* the ban store alone and returns True.
C11_DryRunSuite ==
    t_args.dry_run => (trace = <<>> /\ (TestDone => t_result = "true"))

\* C12: with the new configuration missing, deploy_new_config returns False
\* before any side effect: no file changes, no backup appears and no
\* transaction is started, in dry-run and in real mode.
C12_FailFast ==
    (DeployDone /\ ~files0[PendingConfig].exists)
    => (result = "false" /\ files = files0 /\ tm = NoTM /\ backup_file_path = NoPath)

\* C13: a real deploy with skip_backup, or of a target that does not exist
\* yet, takes no backup and starts no transaction; when its copy succeeds it
\* returns True with the new content in place and no backup file created;
\* with skip_backup the warning is logged.
C13_DeployWithoutBackup ==
    (~args.dry_run /\ files0[PendingConfig].exists
       /\ (args.skip_backup \/ ~files0[CurrentConfig].exists))
    => /\ backup_file_path = NoPath
       /\ ~tm.deployment_started
       /\ \A b \in BackupPaths : files[b] = files0[b]
       /\ pc \in {"validate", "dryrun", "backup", "start", "copy"} => files = files0
       /\ (DeployDone /\ ~copyFailed)
            => /\ result = "true"
               /\ files[CurrentConfig] = FileOf(files0[PendingConfig].data)
               /\ args.skip_backup => "warn_backup_skipped" \in log

C13_Witness ==
    /\ DeployDone /\ ~args.dry_run /\ args.skip_backup /\ files0[CurrentConfig].exists
    /\ result = "true" /\ files[CurrentConfig] # files0[CurrentConfig]

\* C14: in a real deploy with a backup due (skip_backup False, target
\* exists) the target is never written before a backup file holds its
\* pre-deploy content; a failed backup makes the deploy return False with the
\* target untouched; after a successful deploy the backup is still there.
C14_BackupPrecedesMutation ==
    (~args.dry_run /\ ~args.skip_backup /\ files0[CurrentConfig].exists
       /\ files0[PendingConfig].exists)
    => /\ files[CurrentConfig] # files0[CurrentConfig]
            => \E b \in BackupPaths : files[b] = files0[CurrentConfig]
       /\ (DeployDone /\ "backup_failed" \in log)
            => (result = "false" /\ files[CurrentConfig] = files0[CurrentConfig])
       /\ (DeployDone /\ result = "true")
            => (backup_file_path # NoPath /\ files[backup_file_path] = files0[CurrentConfig])

\* the backup of the last direct call was missing when the call was made
BackupMissingAtCall ==
    \/ tmCall.tmBefore.backup_path = NoPath
    \/ ~PathExists(tmCall.fsBefore, tmCall.tmBefore.backup_path)

\* C15: start_deployment raises DeploymentError and leaves deployment_started
\* False whenever the backup path is empty or names a file that does not
\* exist; it sets deployment_started True only when the backup file exists at
\* the time of the call (and then it does not raise).
C15_StartDeployment ==
    (tmCall.op = "start" /\ pc = "tm")
        => /\ BackupMissingAtCall
              => (tmCall.raised /\ ~tm.deployment_started /\ tm = tmCall.tmBefore)
           /\ ~BackupMissingAtCall
              => (~tmCall.raised /\ tm = [tmCall.tmBefore EXCEPT !.deployment_started = TRUE])
           /\ files = tmCall.fsBefore

\* C15 witness: start_deployment was called with a non-empty backup path
\* whose file does not exist, and raised
C15_Witness ==
    /\ tmCall.op = "start"
    /\ tmCall.tmBefore.backup_path # NoPath
    /\ ~PathExists(tmCall.fsBefore, tmCall.tmBefore.backup_path)
    /\ tmCall.raised

\* C16: rollback() on a transaction that was never started is a no-op that
\* returns False: the target file is not modified and rollback_performed
\* stays False, even when a valid backup file exists.
C16_RollbackNotStarted ==
    (tmCall.op = "rollback" /\ pc = "tm" /\ ~tmCall.tmBefore.deployment_started)
        => /\ ~tmCall.ret
           /\ files = tmCall.fsBefore
           /\ ~tm.rollback_performed
           /\ "rollback_not_started" \in tmCall.log

\* C17: rollback() returns True exactly when the backup was copied over the
\* target, and only then sets rollback_performed; it returns False when the
\* backup is missing or the restoring copy fails; after a False result
\* handle_deployment_error reports the critical manual-intervention condition
\* and attempts nothing further (one rollback call, the target left as the
\* rollback left it, return value False).
C17_RollbackResult ==
    /\ (tmCall.op = "rollback" /\ pc = "tm")
          => /\ tmCall.ret <=> (~BackupMissingAtCall /\ tmCall.oc.ok)
             /\ tmCall.ret
                  => files[tm.original_config_path] = FileOf(tmCall.fsBefore[tm.backup_path].data)
             /\ BackupMissingAtCall => files = tmCall.fsBefore
             /\ tm.rollback_performed = (tmCall.tmBefore.rollback_performed \/ tmCall.ret)
             /\ tm.deployment_started = tmCall.tmBefore.deployment_started
             /\ \A b \in BackupPaths : files[b] = tmCall.fsBefore[b]
    /\ (pc = "done" /\ rollbackCalls >= 1)
          => /\ rollbackCalls = 1
             /\ result = "false"
             /\ ("rollback_ok" \in log) <=> ("critical_manual_intervention" \notin log)

\* C17 witness: the handler's rollback failed in its copy and the critical
\* condition was reported
C17_Witness ==
    /\ pc = "done"
    /\ "rollback_failed" \in log
    /\ "critical_manual_intervention" \in log
    /\ result = "false"

\* C18: cleanup() has no effect beyond logging in any transaction state: the
\* two flags, the target file and the backup file are as before the call, so
\* a further call finds the same state and logs the same lines.
C18_CleanupNoEffect ==
    (tmCall.op = "cleanup" /\ pc = "tm")
        => /\ tm = tmCall.tmBefore
           /\ files = tmCall.fsBefore
           /\ cleanup(tm, files) = tmCall.log

\* C18 witness: cleanup() was called on a started, not rolled back
\* transaction whose backup exists
C18_Witness ==
    /\ tmCall.op = "cleanup"
    /\ tmCall.tmBefore.deployment_started
    /\ ~tmCall.tmBefore.rollback_performed
    /\ PathExists(tmCall.fsBefore, tmCall.tmBefore.backup_path)
    /\ "backup_retained" \in tmCall.log

\* C19: two successful non-dry-run backup_config_file calls for the same
\* source in the same clock second return distinct paths, and the file the
\* first call wrote still holds what the first call copied.
C19_DistinctBackups ==
    \A i, j \in DOMAIN backupLog :
        (/\ i < j
         /\ ~backupLog[i].dry_run /\ ~backupLog[j].dry_run
         /\ backupLog[i].ret # NoPath /\ backupLog[j].ret # NoPath
         /\ backupLog[i].at = backupLog[j].at)
            => /\ backupLog[i].ret # backupLog[j].ret
               /\ files[backupLog[i].ret] = backupLog[i].source

\* the client address a proxy reads from a request's headers ("" when the
\* request names none and the peer address is used)
SimulatedIp(headers) ==
    IF "X-Forwarded-For" \in DOMAIN headers THEN headers["X-Forwarded-For"]
    ELSE IF "X-Real-IP" \in DOMAIN headers THEN headers["X-Real-IP"]
    ELSE ""

\* C20: the Step 2 and Step 3 probes carry the banned test IP as the
\* simulated request origin, and the Step 1 probe carries none.
C20_ProbesSimulateBannedIp ==
    \A i \in DOMAIN probeHeaders :
        /\ i = 1 => SimulatedIp(probeHeaders[i]) = ""
        /\ i >= 2 => SimulatedIp(probeHeaders[i]) = TEST_IP_TO_BAN

\* C21: a probe whose request failed in transport (timeout, connection
\* error, other request error) yields status -1, which is neither expected
\* status, and the step that issued it is recorded as failed by the
\* comparison of _print_test_step_result.
C21_TransportFailure ==
    \A i \in DOMAIN probeOutcomes :
        probeOutcomes[i].kind \in TransportFailures
            => /\ probes[i] = -1
               /\ probes[i] \notin {EXPECTED_STATUS_ALLOWED, EXPECTED_STATUS_BLOCKED}
               /\ i \in DOMAIN test_step_results
               /\ ~test_step_results[i].passed

\* C21 witness: the Step 2 probe timed out and Step 2 is recorded as failed
C21_Witness ==
    /\ Len(probeOutcomes) >= 2
    /\ probeOutcomes[2].kind = "Timeout"
    /\ probes[2] = -1
    /\ ~test_step_results[2].passed

\* the action the command line asked for ended in failure
MainActionFailed ==
    \/ m_args.action = "deploy_conf" /\ result # "true"
    \/ m_args.action = "test_only" /\ t_result # "true"

\* C22: the process exits with a nonzero status on every failure branch, in
\* particular when deploy_new_config returned False for --deploy-conf and
\* when the suite returned False for --test-only; it exits 0 only when the
\* requested action succeeded.
C22_ExitCodes ==
    m_pc = "exited"
        => /\ (m_args.action = "deploy_conf" /\ result = "false") => exit_code # 0
           /\ (m_args.action = "test_only" /\ t_result = "false") => exit_code # 0
           /\ exit_code = 0 => ~MainActionFailed

\* the status Step i of the suite expects
ExpectedStatus(i) == IF i = 2 THEN EXPECTED_STATUS_BLOCKED ELSE EXPECTED_STATUS_ALLOWED

\* the suite returned from the end of Step 3: three probes were made, the
\* last thing it did was the Step 3 probe, and it returned a value
ReturnedAfterStep3 ==
    TestDone /\ Len(probes) = 3 /\ trace[Len(trace)] = "probe" /\ t_result # "raised"

\* C23: a step that issued a probe passes iff the probe's status equals the
\* step's expected status, and a run that returns from the end of Step 3
\* returns True iff all three recorded steps passed.
C23_VerdictAggregation ==
    /\ \A i \in DOMAIN probes :
          /\ i \in DOMAIN test_step_results
          /\ test_step_results[i].passed <=> (probes[i] = ExpectedStatus(i))
    /\ ReturnedAfterStep3
          => /\ Len(test_step_results) = 3
             /\ t_result \in {"true", "false"}
             /\ (t_result = "true") <=> (\A i \in 1..3 : test_step_results[i].passed)

\* C23 witness: the suite returned from the end of Step 3 with Steps 1 and 3
\* passed and Step 2 failed, and returned False
C23_Witness ==
    /\ ReturnedAfterStep3
    /\ test_step_results[1].passed
    /\ ~test_step_results[2].passed
    /\ test_step_results[3].passed
    /\ t_result = "false"

\* the top-level keys named by the paths of one bucket of a diff
TopLevelKeys(bucket) == {path[1] : path \in DOMAIN bucket}

\* the top-level keys whose values in the two documents are not equal
DifferingKeys ==
    {k \in DOMAIN current_doc \cup DOMAIN pending_doc :
        ~(k \in DOMAIN current_doc /\ k \in DOMAIN pending_doc
          /\ current_doc[k] = pending_doc[k])}

\* C24: the top-level keys that appear in the added, removed or modified
\* paths of deep_diff_yaml(A, B) are exactly the keys of A or B whose values
\* are not equal, and each such key falls in one of the three classes.
C24_DiffCompleteness ==
    d_pc \in {"diffed", "both"}
        => LET a == TopLevelKeys(diff_summary.added)
               r == TopLevelKeys(diff_summary.removed)
               m == TopLevelKeys(diff_summary.modified)
           IN /\ a \cup r \cup m = DifferingKeys
              /\ a \cap r = {} /\ a \cap m = {} /\ r \cap m = {}

\* the value a document holds at a path, [t |-> "missing"] when a key of the
\* path is absent or a value on the way is not a mapping
Missing == [t |-> "missing"]
RECURSIVE At(_, _)
At(value, path) ==
    IF path = <<>> THEN value
    ELSE IF value.t = "dict" /\ Head(path) \in DOMAIN value.d
    THEN At(value.d[Head(path)], Tail(path))
    ELSE Missing

\* the paths of the mappings nested in a document
MappingPaths ==
    UNION {[1..n -> TopKeys \cup NestedKeys] : n \in 1..MaxDepth}

\* C25: where the diff recurses into two unequal mappings at path p, a child
\* key present only in the pending mapping is reported as added[p.key] =
\* pending value, a child key present only in the current mapping as
\* removed[p.key] = current value, and neither is reported as modified.
C25_NestedClassification ==
    d_pc \in {"diffed", "both"}
        => \A p \in MappingPaths :
             LET c == At(DictValue(current_doc), p)
                 n == At(DictValue(pending_doc), p)
             IN (c.t = "dict" /\ n.t = "dict" /\ c # n)
                  => /\ \A key \in DOMAIN n.d \ DOMAIN c.d :
                          /\ Append(p, key) \in DOMAIN diff_summary.added
                          /\ diff_summary.added[Append(p, key)] = n.d[key]
                          /\ Append(p, key) \notin DOMAIN diff_summary.modified
                     /\ \A key \in DOMAIN c.d \ DOMAIN n.d :
                          /\ Append(p, key) \in DOMAIN diff_summary.removed
                          /\ diff_summary.removed[Append(p, key)] = c.d[key]
                          /\ Append(p, key) \notin DOMAIN diff_summary.modified

\* C26: the diff of (A, B) and the diff of (B, A) mirror each other: added
\* and removed change places, and the modified entries have the same paths
\* with from and to swapped.
C26_DiffSymmetry ==
    d_pc = "both"
        => /\ diff_summary.added = diff_reversed.removed
           /\ diff_summary.removed = diff_reversed.added
           /\ DOMAIN diff_summary.modified = DOMAIN diff_reversed.modified
           /\ \A path \in DOMAIN diff_summary.modified :
                 /\ diff_summary.modified[path].from = diff_reversed.modified[path].to
                 /\ diff_summary.modified[path].to = diff_reversed.modified[path].from

\* C26 witness: both diffs were computed for two documents whose diff has an
\* added key, and a modified entry below a nested mapping whose new value is
\* null
C26_Witness ==
    /\ d_pc = "both"
    /\ diff_summary.added # <<>>
    /\ \E path \in DOMAIN diff_summary.modified :
          Len(path) >= 2 /\ diff_summary.modified[path].to = Null

\* C27: within one deploy_new_config execution rollback is invoked at most
\* once, only after start_deployment succeeded and the guarded copy raised,
\* and never on a path that returns True; when the backup was skipped or the
\* target did not exist, a failing copy triggers no rollback and the function
\* returns False.
C27_RollbackAtMostOnce ==
    /\ rollbackCalls <= 1
    /\ rollbackCalls >= 1 => (tm.deployment_started /\ copyFailed /\ result # "true")
    /\ (DeployDone /\ copyFailed /\ (args.skip_backup \/ ~files0[CurrentConfig].exists))
          => (rollbackCalls = 0 /\ result = "false")

\* the decision requests issued so far end with an unban whenever a ban was
\* issued
LastDecisionRequestIsUnban ==
    \A i \in DOMAIN trace :
        trace[i] = "ban" => \E j \in DOMAIN trace : j > i /\ trace[j] = "unban"

\* C28: in every terminated non-dry-run execution of the suite, on normal and
\* on exceptional paths, every ban request issued for the test IP was
\* followed by an unban request before the function ended.
C28_NeverLeavesBanned ==
    (TestDone /\ ~t_args.dry_run) => LastDecisionRequestIsUnban

\* C29: a non-dry-run run_crowdsec_container_tests returns True only if all
\* three steps were executed and passed; in particular not when the ban
\* request failed, so True means Step 2 was performed and observed
\* EXPECTED_STATUS_BLOCKED.
C29_ContainerTrueMeansAllSteps ==
    (TestDone /\ ~t_args.dry_run /\ t_result = "true")
        => /\ banInitiated = "true"
           /\ Len(test_step_results) = 3
           /\ \A i \in 1..3 : test_step_results[i].passed
           /\ Len(probes) = 3
           /\ probes[2] = EXPECTED_STATUS_BLOCKED

\* C30: whenever a non-dry-run inject_tarballs_with_restart failed after its
\* backup was created and rollback() returned True, every file that existed
\* under the target directory before the call has its content from before
\* the call and every file the extraction created has been removed.
C30_TarballRollback ==
    (tar_pc = "done" /\ tar_result = "false" /\ injection_manager.backup_created
     /\ tar_rollback = "true")
        => target_dir = target_dir0

====
